---------------------------- MODULE Spec2Model ----------------------------
(***************************************************************************)
(* certmagic-s3: a certmagic.Storage over an S3-compatible object store.   *)
(*                                                                         *)
(* Strings of the program (keys, the prefix, the host, the bucket, the     *)
(* credentials) are sequences of one-character strings, so that prefixing, *)
(* cleaning and cutting work on their characters; the texts handed to     *)
(* strconv.ParseBool and the error values are TLA+ strings.                *)
(***************************************************************************)
EXTENDS Integers, Sequences, FiniteSets, TLC

VARIABLES
    s3,        \* the S3 struct: configuration fields and the client handle
    env,       \* the process environment (S3_* variables), fixed at start
    explicit,  \* history: the value each setting was given in the config
    phase,     \* where the module's lifecycle stands
    provErr,   \* the error UnmarshalCaddyfile or Provision returned
    objects,   \* the bucket: physical key -> bytes
    pc,        \* per caller: "idle", or "fetch" inside Load after Exists
    loadKey,   \* per caller: the key of the Load in progress
    loadDel,   \* per caller, history: the Load began after Delete of its key
    held,      \* per caller: the keys it called Lock on and not yet Unlock
    ret,       \* the call that just returned and what it returned
    lastK,     \* history, per logical key: outcome of the last call on it
    intact,    \* history, per logical key: no aliasing call since then
    out        \* the last application of the key-mapping functions

vars == <<s3, env, explicit, phase, provErr, objects, pc, loadKey, loadDel,
          held, ret, lastK, intact, out>>

configVars == <<s3, env, explicit, phase, provErr>>
storeVars  == <<objects, pc, loadKey, loadDel, held, ret, lastK, intact>>

-----------------------------------------------------------------------------
(* Bounds *)

\* longest key or prefix string drawn for the key-mapping functions
MaxLen == 3
\* longest object content, in bytes
MaxValLen == 1

-----------------------------------------------------------------------------
(* Strings *)

Str(S, n) == UNION {[1..m -> S] : m \in 0..n}

HasPrefix(s, p) ==
    /\ Len(p) <= Len(s)
    /\ SubSeq(s, 1, Len(p)) = p

HasSuffix(s, p) ==
    /\ Len(p) <= Len(s)
    /\ SubSeq(s, Len(s) - Len(p) + 1, Len(s)) = p

\* strings.CutPrefix: s without the leading p, or s itself when p does not lead
CutPrefix(s, p) ==
    IF HasPrefix(s, p) THEN SubSeq(s, Len(p) + 1, Len(s)) ELSE s

Contains(s, c) == \E i \in 1..Len(s) : s[i] = c

\* the elements of s between "/" separators
RECURSIVE SplitFrom(_, _, _)
SplitFrom(s, i, cur) ==
    IF i > Len(s) THEN <<cur>>
    ELSE IF s[i] = "/" THEN <<cur>> \o SplitFrom(s, i + 1, <<>>)
    ELSE SplitFrom(s, i + 1, Append(cur, s[i]))

Split(s) == SplitFrom(s, 1, <<>>)

RECURSIVE JoinSlash(_)
JoinSlash(elems) ==
    IF elems = <<>> THEN <<>>
    ELSE IF Len(elems) = 1 THEN elems[1]
    ELSE elems[1] \o <<"/">> \o JoinSlash(Tail(elems))

\* path.Clean's pass over the elements: "" and "." are dropped, ".." removes
\* the element before it, is dropped at the root and is kept when a relative
\* path has nothing left to remove
RECURSIVE CleanElems(_, _, _, _)
CleanElems(elems, i, stack, rooted) ==
    IF i > Len(elems) THEN stack
    ELSE LET e == elems[i] IN
         IF e = <<>> \/ e = <<".">>
             THEN CleanElems(elems, i + 1, stack, rooted)
         ELSE IF e = <<".", ".">>
             THEN IF stack # <<>> /\ stack[Len(stack)] # <<".", ".">>
                      THEN CleanElems(elems, i + 1,
                                      SubSeq(stack, 1, Len(stack) - 1), rooted)
                  ELSE IF rooted
                      THEN CleanElems(elems, i + 1, stack, rooted)
                  ELSE CleanElems(elems, i + 1, Append(stack, e), rooted)
         ELSE CleanElems(elems, i + 1, Append(stack, e), rooted)

\* path.Clean
Clean(p) ==
    IF p = <<>> THEN <<".">>
    ELSE LET rooted == p[1] = "/"
             body   == JoinSlash(CleanElems(Split(p), 1, <<>>, rooted))
             r      == IF rooted THEN <<"/">> \o body ELSE body
         IN  IF r = <<>> THEN <<".">> ELSE r

\* path.Join of two elements: empty elements are ignored, the rest is joined
\* with "/" and cleaned; all empty gives ""
PathJoin(a, b) ==
    IF a = <<>> /\ b = <<>> THEN <<>>
    ELSE IF a = <<>> THEN Clean(b)
    ELSE IF b = <<>> THEN Clean(a)
    ELSE Clean(a \o <<"/">> \o b)

-----------------------------------------------------------------------------
(* Key mapping *)

KeyPrefix(key) == PathJoin(s3.Prefix, key)

CutKeyPrefix(key) == CutPrefix(key, s3.Prefix)

-----------------------------------------------------------------------------
(* Errors *)

Nil == "nil"
ErrNotExist == "fs.ErrNotExist"

-----------------------------------------------------------------------------
(* Configuration: UnmarshalCaddyfile and Provision *)

Letters == {"a", "b", "e", "h", "i", "k", "s"}
Digits  == {"1"}

\* strconv.ParseBool: the texts it accepts, and the value of an accepted text
ParseBoolOk(text) ==
    text \in {"1", "t", "T", "TRUE", "true", "True",
              "0", "f", "F", "FALSE", "false", "False"}

ParseBoolVal(text) == text \in {"1", "t", "T", "TRUE", "true", "True"}

\* net/url getScheme: a leading run of letters (and, after the first
\* character, digits, "+", "-", ".") that ends in ":" is the scheme
RECURSIVE GetSchemeFrom(_, _)
GetSchemeFrom(h, i) ==
    IF i > Len(h) THEN [scheme |-> <<>>, err |-> FALSE]
    ELSE IF h[i] \in Letters THEN GetSchemeFrom(h, i + 1)
    ELSE IF h[i] \in Digits \cup {"+", "-", "."}
        THEN IF i = 1 THEN [scheme |-> <<>>, err |-> FALSE]
             ELSE GetSchemeFrom(h, i + 1)
    ELSE IF h[i] = ":"
        THEN IF i = 1 THEN [scheme |-> <<>>, err |-> TRUE]
             ELSE [scheme |-> SubSeq(h, 1, i - 1), err |-> FALSE]
    ELSE [scheme |-> <<>>, err |-> FALSE]

\* url.Parse, as far as validateHost reads its result: the scheme, and whether
\* parsing fails (no scheme before ":", or a scheme-less first path segment
\* that holds a colon)
UrlParse(h) ==
    LET g == GetSchemeFrom(h, 1)
    IN  IF g.err THEN g
        ELSE IF g.scheme = <<>> /\ ~HasPrefix(h, <<"/">>)
                /\ Contains(Split(h)[1], ":")
            THEN [scheme |-> <<>>, err |-> TRUE]
        ELSE g

validateHost(h) ==
    LET u == UrlParse(h)
    IN  IF u.err THEN "invalid host"
        ELSE IF u.scheme # <<>> THEN "host must not contain a scheme"
        ELSE Nil

NoClient == [installed |-> FALSE, secure |-> FALSE, creds |-> "none"]

\* the zero S3 struct caddy hands to UnmarshalCaddyfile
ZeroS3 ==
    [Host |-> <<>>, Bucket |-> <<>>, AccessID |-> <<>>, SecretKey |-> <<>>,
     Prefix |-> <<>>, Insecure |-> FALSE, UseIamProvider |-> FALSE,
     client |-> NoClient]

Settings == {"host", "bucket", "access_id", "secret_key", "prefix",
             "insecure", "use_iam_provider"}
StringSettings == {"host", "bucket", "access_id", "secret_key", "prefix"}
BoolSettings == {"insecure", "use_iam_provider"}

NotGiven == [s \in Settings |->
                [given |-> FALSE,
                 val |-> IF s \in BoolSettings THEN FALSE ELSE <<>>]]

\* the values a directive of the config file may carry
DirectiveValues(key) ==
    CASE key = "host" -> {<<"h">>, <<"h", ":", "/", "/", "h">>, <<"1", ":", "1">>}
      [] key = "bucket" -> {<<"b">>}
      [] key = "access_id" -> {<<"i">>}
      [] key = "secret_key" -> {<<"k">>}
      [] key = "prefix" -> {<<"s">>, <<"s", "/">>, <<>>}
      [] key = "insecure" -> {"true", "false", "yes"}
      [] key = "use_iam_provider" -> {"true", "false"}

\* the environments the process may start in
Environments ==
    [S3_HOST : {<<>>, <<"e">>, <<"h", ":", "1">>},
     S3_BUCKET : {<<>>, <<"e">>},
     S3_ACCESS_ID : {<<>>, <<"e">>},
     S3_SECRET_KEY : {<<>>, <<"e">>},
     S3_PREFIX : {<<>>, <<"e">>},
     S3_INSECURE : {"", "true", "yes"},
     S3_USE_IAM_PROVIDER : {"", "true"}]

\* the field a directive key assigns
FieldOf(key) ==
    CASE key = "host" -> "Host"
      [] key = "bucket" -> "Bucket"
      [] key = "access_id" -> "AccessID"
      [] key = "secret_key" -> "SecretKey"
      [] key = "prefix" -> "Prefix"
      [] key = "insecure" -> "Insecure"
      [] key = "use_iam_provider" -> "UseIamProvider"

\* one iteration of UnmarshalCaddyfile's loop over a directive that has an
\* argument (a directive without one, or with an unknown key, changes nothing)
UnmarshalDirective(key, value) ==
    /\ phase = "config"
    /\ IF key \in BoolSettings
           THEN IF ParseBoolOk(value)
                    THEN /\ s3' = [s3 EXCEPT ![FieldOf(key)] = ParseBoolVal(value)]
                         /\ explicit' = [explicit EXCEPT ![key] =
                               [given |-> TRUE, val |-> ParseBoolVal(value)]]
                         /\ UNCHANGED <<phase, provErr>>
                    ELSE /\ phase' = "configError"
                         /\ provErr' = "Invalid usage of boolean setting"
                         /\ UNCHANGED <<s3, explicit>>
           ELSE /\ s3' = [s3 EXCEPT ![FieldOf(key)] = value]
                /\ explicit' = [explicit EXCEPT ![key] =
                                   [given |-> TRUE, val |-> value]]
                /\ IF key = "host" /\ validateHost(value) # Nil
                       THEN /\ phase' = "configError"
                            /\ provErr' = "Invalid usage of host"
                       ELSE UNCHANGED <<phase, provErr>>
    /\ UNCHANGED <<env, out>>
    /\ UNCHANGED storeVars

\* UnmarshalCaddyfile's return nil once the directives are consumed
UnmarshalReturn ==
    /\ phase = "config"
    /\ phase' = "loaded"
    /\ UNCHANGED <<s3, env, explicit, provErr, out>>
    /\ UNCHANGED storeVars

\* a string setting left empty by the config takes the environment's value
EnvOr(cur, envval) == IF cur = <<>> THEN envval ELSE cur

\* a boolean setting that is false takes the environment's value when the
\* variable is set; a text ParseBool rejects counts as false
EnvBool(cur, text) ==
    IF ~cur /\ text # ""
        THEN IF ParseBoolOk(text) THEN ParseBoolVal(text) ELSE FALSE
    ELSE cur

\* a credential check that forgets use_iam_provider
CredentialMissingNoIam(cred, iam) == cred = <<>>

\* access_id or secret_key is empty and use_iam_provider is false
CredentialMissing(cred, iam) == cred = <<>> /\ ~iam

\* minio.New rejects an endpoint it cannot address; the empty host is one
NewClientErr(host) ==
    IF host = <<>> THEN "Endpoint url cannot be empty" ELSE Nil

\* Provision on struct s in environment e: the struct as the call leaves it
\* and the error it returns
ProvisionResult(s, e) ==
    LET host   == EnvOr(s.Host, e.S3_HOST)
        iam    == EnvBool(s.UseIamProvider, e.S3_USE_IAM_PROVIDER)
        bucket == EnvOr(s.Bucket, e.S3_BUCKET)
        access == EnvOr(s.AccessID, e.S3_ACCESS_ID)
        secret == EnvOr(s.SecretKey, e.S3_SECRET_KEY)
        prefix == EnvOr(s.Prefix, e.S3_PREFIX)
        insec  == EnvBool(s.Insecure, e.S3_INSECURE)
        s1 == [s EXCEPT !.Host = host]
        s2 == [s1 EXCEPT !.UseIamProvider = iam]
        s3b == [s2 EXCEPT !.Bucket = bucket]
        s4 == [s3b EXCEPT !.AccessID = access]
        s5 == [s4 EXCEPT !.SecretKey = secret]
        s6 == [s5 EXCEPT !.Prefix = prefix, !.Insecure = insec]
    IN  IF validateHost(host) # Nil
            THEN [s |-> s1, err |-> validateHost(host)]
        ELSE IF bucket = <<>>
            THEN [s |-> s3b, err |-> "bucket is empty"]
        ELSE IF CredentialMissing(access, iam)
            THEN [s |-> s4, err |-> "access_id is empty and use_iam_provider is false"]
        ELSE IF CredentialMissing(secret, iam)
            THEN [s |-> s5, err |-> "secret_key is empty and use_iam_provider is false"]
        ELSE IF NewClientErr(host) # Nil
            THEN [s |-> s6, err |-> NewClientErr(host)]
        ELSE [s |-> [s6 EXCEPT !.client =
                        [installed |-> TRUE, secure |-> ~insec,
                         creds |-> IF iam THEN "IAM" ELSE "StaticV4"]],
              err |-> Nil]

Provision ==
    /\ phase = "loaded"
    /\ LET r == ProvisionResult(s3, env)
       IN  /\ s3' = r.s
           /\ provErr' = r.err
           /\ phase' = IF r.err = Nil THEN "provisioned" ELSE "provisionError"
    /\ UNCHANGED <<env, explicit, out>>
    /\ UNCHANGED storeVars

-----------------------------------------------------------------------------
(* The object store behind the minio client *)

\* the callers and the logical keys of a run are those its initial state
\* gives a position and a history
Callers == DOMAIN pc
Keys == DOMAIN lastK

\* the logical keys of the sequential runs: "a", "a/" and "a/b"
SeqKeys == {<<"a">>, <<"a", "/">>, <<"a", "/", "b">>}

\* the prefixes callers list: "" and "a"
ListPrefixes == {<<>>, <<"a">>}

\* the keys callers lock
LockKeys == {<<"a">>}

\* the prefixes the adapter may be configured with: "", "s" and "s/"
Prefixes == {<<>>, <<"s">>, <<"s", "/">>}

\* the prefixes of the runs of the storage operations: "" and "s"
RunPrefixes == {<<>>, <<"s">>}

\* object contents
Values == Str({1}, MaxValLen)

\* the failures a call of the client may report whatever the bucket holds
FaultErrs == {"Transport"}
NoSuchKey == "NoSuchKey"

Present(pk) == \E o \in objects : o.key = pk
Content(pk) == (CHOOSE o \in objects : o.key = pk).val
Put(pk, v)  == {o \in objects : o.key # pk} \cup {[key |-> pk, val |-> v]}
Remove(pk)  == {o \in objects : o.key # pk}

\* the error of a client call on object pk when the transport reports f
ClientErr(pk, f) ==
    IF f # Nil THEN f ELSE IF Present(pk) THEN Nil ELSE NoSuchKey

\* byte order of the characters, as the store enumerates keys
Code(c) ==
    CASE c = "." -> 46 [] c = "/" -> 47 [] c = "a" -> 97 [] c = "b" -> 98
      [] c = "e" -> 101 [] c = "s" -> 115 [] OTHER -> 0

RECURSIVE LessFrom(_, _, _)
LessFrom(a, b, i) ==
    IF i > Len(a) THEN i <= Len(b)
    ELSE IF i > Len(b) THEN FALSE
    ELSE IF a[i] = b[i] THEN LessFrom(a, b, i + 1)
    ELSE Code(a[i]) < Code(b[i])

RECURSIVE SortKeys(_)
SortKeys(S) ==
    IF S = {} THEN <<>>
    ELSE LET m == CHOOSE x \in S : \A y \in S \ {x} : LessFrom(x, y, 1)
         IN  <<m>> \o SortKeys(S \ {m})

FirstSlash(s) == CHOOSE i \in 1..Len(s) : s[i] = "/" /\ \A j \in 1..(i - 1) : s[j] # "/"

\* client.ListObjects without failure: the keys that start with prefix, in
\* order; when not recursive, keys with a "/" after the prefix are rolled up
\* into one entry that ends at that "/"
ListObjects(prefix, recursive) ==
    LET matching == {o.key : o \in {x \in objects : HasPrefix(x.key, prefix)}}
        entry(k) ==
            LET rest == SubSeq(k, Len(prefix) + 1, Len(k))
            IN  IF ~recursive /\ Contains(rest, "/")
                    THEN prefix \o SubSeq(rest, 1, FirstSlash(rest))
                ELSE k
    IN  SortKeys({entry(k) : k \in matching})

-----------------------------------------------------------------------------
(* History of the calls on each logical key *)

NoCall == [st |-> "none", v |-> <<>>]

\* lastK after a call on key k with outcome h; intact after that call: k is
\* intact again, every other key with k's physical key is not
Record(k, h) == [lastK EXCEPT ![k] = h]
Disturb(k) ==
    LET pk == KeyPrefix(k)
    IN  [j \in Keys |-> IF j = k THEN TRUE
                        ELSE IF KeyPrefix(j) = pk THEN FALSE
                        ELSE intact[j]]

NoRet == [op |-> "none", key |-> <<>>, val |-> <<>>,
          err |-> Nil, cerr |-> Nil, flag |-> FALSE]

-----------------------------------------------------------------------------
(* The storage operations *)

Ready(c) == phase = "provisioned" /\ s3.client.installed /\ pc[c] = "idle"

\* a Lock that refuses a key another caller holds
LockReturnExclusive(c, key) ==
    IF \E d \in Callers \ {c} : key \in held[d] THEN "ErrLocked" ELSE Nil

LockReturn(c, key) == Nil

UnlockReturn(c, key) == Nil

Lock(c, key) ==
    /\ Ready(c)
    /\ key \notin held[c]
    /\ held' = [held EXCEPT ![c] =
                   IF LockReturn(c, key) = Nil THEN @ \cup {key} ELSE @]
    /\ ret' = [NoRet EXCEPT !.op = "Lock", !.key = key,
                            !.err = LockReturn(c, key)]
    /\ UNCHANGED <<objects, pc, loadKey, loadDel, lastK, intact, out>>
    /\ UNCHANGED configVars

Unlock(c, key) ==
    /\ Ready(c)
    /\ key \in held[c]
    /\ held' = [held EXCEPT ![c] = @ \ {key}]
    /\ ret' = [NoRet EXCEPT !.op = "Unlock", !.key = key,
                            !.err = UnlockReturn(c, key)]
    /\ UNCHANGED <<objects, pc, loadKey, loadDel, lastK, intact, out>>
    /\ UNCHANGED configVars

\* Store returns PutObject's error
StoreReturn(cerr) == cerr

\* PutObject that reports a failure may or may not have written the object
Store(c, key, value) ==
    /\ Ready(c)
    /\ \E f \in {Nil} \cup FaultErrs, wrote \in BOOLEAN :
          /\ f = Nil => wrote
          /\ objects' = IF wrote THEN Put(KeyPrefix(key), value) ELSE objects
          /\ ret' = [NoRet EXCEPT !.op = "Store", !.key = key,
                                  !.err = StoreReturn(f), !.cerr = f]
          /\ lastK' = Record(key, IF StoreReturn(f) = Nil
                                      THEN [st |-> "stored", v |-> value]
                                      ELSE NoCall)
    /\ intact' = Disturb(key)
    /\ UNCHANGED <<pc, loadKey, loadDel, held, out>>
    /\ UNCHANGED configVars

\* a Delete that reports success whatever RemoveObject returned
DeleteReturnNil(cerr) == Nil

\* Delete returns RemoveObject's error
DeleteReturn(cerr) == cerr

\* RemoveObject succeeds on an absent key; one that reports a failure may or
\* may not have removed the object
Delete(c, key) ==
    /\ Ready(c)
    /\ \E f \in {Nil} \cup FaultErrs, removed \in BOOLEAN :
          /\ f = Nil => removed
          /\ objects' = IF removed THEN Remove(KeyPrefix(key)) ELSE objects
          /\ ret' = [NoRet EXCEPT !.op = "Delete", !.key = key,
                                  !.err = DeleteReturn(f), !.cerr = f]
          /\ lastK' = Record(key, IF DeleteReturn(f) = Nil
                                      THEN [st |-> "deleted", v |-> <<>>]
                                      ELSE NoCall)
    /\ intact' = Disturb(key)
    /\ UNCHANGED <<pc, loadKey, loadDel, held, out>>
    /\ UNCHANGED configVars

\* Exists on physical key pk: StatObject returned no error
ExistsResult(pk, f) == ClientErr(pk, f) = Nil

Exists(c, key) ==
    /\ Ready(c)
    /\ LET pk == KeyPrefix(key)
       IN  \E f \in {Nil} \cup FaultErrs :
             ret' = [NoRet EXCEPT !.op = "Exists", !.key = key,
                                 !.val = ExistsResult(pk, f),
                                 !.cerr = ClientErr(pk, f),
                                 !.flag = (lastK[key].st = "deleted")]
    /\ UNCHANGED <<objects, pc, loadKey, loadDel, held, lastK, intact, out>>
    /\ UNCHANGED configVars

\* Load, first round trip: the Exists pre-check; not-found when it is false
LoadCheck(c, key) ==
    /\ Ready(c)
    /\ \E f \in {Nil} \cup FaultErrs :
          IF ExistsResult(KeyPrefix(key), f)
              THEN /\ pc' = [pc EXCEPT ![c] = "fetch"]
                   /\ loadKey' = [loadKey EXCEPT ![c] = key]
                   /\ loadDel' = [loadDel EXCEPT ![c] = (lastK[key].st = "deleted")]
                   /\ ret' = NoRet
              ELSE /\ ret' = [NoRet EXCEPT !.op = "Load", !.key = key, !.err = ErrNotExist,
                                           !.cerr = ClientErr(KeyPrefix(key), f),
                                           !.flag = (lastK[key].st = "deleted")]
                   /\ UNCHANGED <<pc, loadKey, loadDel>>
    /\ UNCHANGED <<objects, held, lastK, intact, out>>
    /\ UNCHANGED configVars

\* a fetch that reports an object gone since the pre-check as not found
LoadFetchReturnNotExist(cerr) ==
    IF cerr = NoSuchKey THEN ErrNotExist ELSE cerr

\* Load returns the error of GetObject or of reading the object
LoadFetchReturn(cerr) == cerr

\* a fetch that drops the last byte
LoadFetchDataShort(pk) ==
    IF Content(pk) = <<>> THEN <<>>
    ELSE SubSeq(Content(pk), 1, Len(Content(pk)) - 1)

\* io.ReadAll of the object
LoadFetchData(pk) == Content(pk)

\* Load, second round trip: GetObject and io.ReadAll; a read that fails
\* returns the bytes read so far with the error
LoadFetch(c) ==
    /\ phase = "provisioned"
    /\ pc[c] = "fetch"
    /\ LET key == loadKey[c]
           pk  == KeyPrefix(key)
       IN  \E f \in {Nil} \cup FaultErrs :
             \E part \in IF ClientErr(pk, f) = Nil THEN {LoadFetchData(pk)}
                          ELSE IF Present(pk)
                              THEN {SubSeq(Content(pk), 1, n) :
                                       n \in 0..(Len(Content(pk)) - 1)} \cup {<<>>}
                          ELSE {<<>>} :
                ret' = [NoRet EXCEPT !.op = "Load", !.key = key,
                                    !.val = part,
                                    !.err = LoadFetchReturn(ClientErr(pk, f)),
                                    !.cerr = ClientErr(pk, f),
                                    !.flag = loadDel[c]]
    /\ pc' = [pc EXCEPT ![c] = "idle"]
    /\ loadKey' = [loadKey EXCEPT ![c] = <<>>]
    /\ loadDel' = [loadDel EXCEPT ![c] = FALSE]
    /\ UNCHANGED <<objects, held, lastK, intact, out>>
    /\ UNCHANGED configVars

Min(a, b) == IF a < b THEN a ELSE b

\* the keys List returns for the entries read from the channel: a slice made
\* with len(objects) empty strings, then the cut key of every entry
ListKeys(infos, n) ==
    [i \in 1..n |-> <<>>] \o [i \in 1..Len(infos) |-> CutKeyPrefix(infos[i].Key)]

\* List returns a nil error
ListReturn(infos) == Nil

\* the entries ListObjects sends: every entry, or on a failure some of them
\* and then one entry that carries the error; len(objects) is the number of
\* entries waiting in the channel (its buffer holds one) when List reads it
List(c, prefix, recursive) ==
    /\ Ready(c)
    /\ LET all == ListObjects(KeyPrefix(prefix), recursive)
       IN  \E f \in {Nil} \cup FaultErrs, cut \in 0..Len(all) :
             /\ f = Nil => cut = Len(all)
             /\ LET infos == [i \in 1..cut |-> [Key |-> all[i], Err |-> Nil]]
                              \o (IF f = Nil THEN <<>>
                                  ELSE <<[Key |-> <<>>, Err |-> f]>>)
                IN  \E n \in 0..Min(1, Len(infos)) :
                      ret' = [NoRet EXCEPT !.op = "List", !.key = prefix,
                                          !.val = ListKeys(infos, n),
                                          !.err = ListReturn(infos),
                                          !.cerr = f, !.flag = recursive]
    /\ UNCHANGED <<objects, pc, loadKey, loadDel, held, lastK, intact, out>>
    /\ UNCHANGED configVars

EmptyKeyInfo ==
    [Key |-> <<>>, Modified |-> "zero", Size |-> 0, IsTerminal |-> FALSE]

\* a Stat that returns the error of StatObject
StatResultPropagate(pk, f) ==
    IF ClientErr(pk, f) # Nil
        THEN [info |-> EmptyKeyInfo, err |-> ClientErr(pk, f)]
    ELSE [info |-> [Key |-> pk, Modified |-> "lastModified",
                    Size |-> Len(Content(pk)),
                    IsTerminal |-> HasSuffix(pk, <<"/">>)],
          err |-> Nil]

\* Stat on physical key pk: the KeyInfo and the error it returns
StatResult(pk, f) ==
    IF ClientErr(pk, f) # Nil
        THEN [info |-> EmptyKeyInfo, err |-> Nil]
    ELSE [info |-> [Key |-> pk, Modified |-> "lastModified",
                    Size |-> Len(Content(pk)),
                    IsTerminal |-> HasSuffix(pk, <<"/">>)],
          err |-> ClientErr(pk, f)]

Stat(c, key) ==
    /\ Ready(c)
    /\ LET pk == KeyPrefix(key)
       IN  \E f \in {Nil} \cup FaultErrs :
             LET r == StatResult(pk, f)
             IN  ret' = [NoRet EXCEPT !.op = "Stat", !.key = key,
                                     !.val = r.info, !.err = r.err,
                                     !.cerr = ClientErr(pk, f)]
    /\ UNCHANGED <<objects, pc, loadKey, loadDel, held, lastK, intact, out>>
    /\ UNCHANGED configVars

-----------------------------------------------------------------------------
(* The key-mapping functions applied to drawn strings *)

KeyAlphabet == {"a", "b", "/", "."}
KeyStrings == Str(KeyAlphabet, MaxLen)

NoOut == [k1 |-> <<>>, k2 |-> <<>>, p1 |-> <<>>, p2 |-> <<>>, cut1 |-> <<>>,
          applied |-> FALSE]

MapKeys(k1, k2) ==
    /\ phase = "keys"
    /\ ~out.applied
    /\ out' = [k1 |-> k1, k2 |-> k2, p1 |-> KeyPrefix(k1), p2 |-> KeyPrefix(k2),
               cut1 |-> CutKeyPrefix(KeyPrefix(k1)), applied |-> TRUE]
    /\ UNCHANGED configVars
    /\ UNCHANGED storeVars

-----------------------------------------------------------------------------
(* Specifications *)

EmptyEnv ==
    [S3_HOST |-> <<>>, S3_BUCKET |-> <<>>, S3_ACCESS_ID |-> <<>>,
     S3_SECRET_KEY |-> <<>>, S3_PREFIX |-> <<>>, S3_INSECURE |-> "",
     S3_USE_IAM_PROVIDER |-> ""]

\* a config that gives host, bucket, both credentials and prefix p
ConfigWith(p) ==
    [ZeroS3 EXCEPT !.Host = <<"h">>, !.Bucket = <<"b">>, !.AccessID = <<"i">>,
                   !.SecretKey = <<"k">>, !.Prefix = p]

GivenWith(p) ==
    [s \in Settings |->
        CASE s = "host" -> [given |-> TRUE, val |-> <<"h">>]
          [] s = "bucket" -> [given |-> TRUE, val |-> <<"b">>]
          [] s = "access_id" -> [given |-> TRUE, val |-> <<"i">>]
          [] s = "secret_key" -> [given |-> TRUE, val |-> <<"k">>]
          [] s = "prefix" -> [given |-> TRUE, val |-> p]
          [] OTHER -> [given |-> FALSE, val |-> FALSE]]

\* an empty bucket, callers cs at rest, no call yet on any of the keys ks
InitStore(cs, ks) ==
    /\ objects = {}
    /\ pc = [c \in cs |-> "idle"]
    /\ loadKey = [c \in cs |-> <<>>]
    /\ loadDel = [c \in cs |-> FALSE]
    /\ held = [c \in cs |-> {}]
    /\ ret = NoRet
    /\ lastK = [k \in ks |-> NoCall]
    /\ intact = [k \in ks |-> TRUE]
    /\ out = NoOut

\* the adapter after a successful Provision with prefix p
Provisioned(p) ==
    /\ s3 = ProvisionResult(ConfigWith(p), EmptyEnv).s
    /\ explicit = GivenWith(p)
    /\ env = EmptyEnv
    /\ provErr = Nil

\* one caller issuing the storage operations one after the other
Init ==
    /\ \E p \in RunPrefixes : Provisioned(p)
    /\ phase = "provisioned"
    /\ InitStore({"c1"}, SeqKeys)

Next ==
    \/ \E c \in Callers, k \in LockKeys : Lock(c, k)
    \/ \E c \in Callers, k \in LockKeys : Unlock(c, k)
    \/ \E c \in Callers, k \in Keys, v \in Values : Store(c, k, v)
    \/ \E c \in Callers, k \in Keys : Delete(c, k)
    \/ \E c \in Callers, k \in Keys : Exists(c, k)
    \/ \E c \in Callers, k \in Keys : LoadCheck(c, k)
    \/ \E c \in Callers : LoadFetch(c)
    \/ \E c \in Callers, p \in ListPrefixes, r \in BOOLEAN : List(c, p, r)
    \/ \E c \in Callers, k \in Keys : Stat(c, k)

Spec == Init /\ [][Next]_vars

\* two callers issuing the storage operations concurrently on one key
InitConcurrent ==
    /\ Provisioned(<<"s">>)
    /\ phase = "provisioned"
    /\ InitStore({"c1", "c2"}, {<<"a">>})

SpecConcurrent == InitConcurrent /\ [][Next]_vars

\* the module before its config is read, in any environment
InitConfig ==
    /\ s3 = ZeroS3
    /\ env \in Environments
    /\ explicit = NotGiven
    /\ phase = "config"
    /\ provErr = Nil
    /\ InitStore({"c1"}, SeqKeys)

NextConfig ==
    \/ \E key \in Settings : \E value \in DirectiveValues(key) :
          UnmarshalDirective(key, value)
    \/ UnmarshalReturn
    \/ Provision

SpecProvision == InitConfig /\ [][NextConfig]_vars

\* the key-mapping functions under every prefix
InitKeys ==
    /\ \E p \in Prefixes : Provisioned(p)
    /\ phase = "keys"
    /\ InitStore({"c1"}, SeqKeys)

NextKeys == \E k1 \in KeyStrings, k2 \in KeyStrings : MapKeys(k1, k2)

SpecKeys == InitKeys /\ [][NextKeys]_vars

-----------------------------------------------------------------------------
(* Properties *)

Range(f) == {f[i] : i \in DOMAIN f}

Stored(k)  == lastK[k].st = "stored"
Deleted(k) == lastK[k].st = "deleted"

Under(k, p) == p = <<>> \/ k = p \/ HasPrefix(k, p \o <<"/">>)

\* a key as certmagic builds them: not empty, relative, already clean
CleanKey(k) == k # <<>> /\ k[1] # "/" /\ k[1] # "." /\ Clean(k) = k

\* the bucket holds exactly what successful Stores on clean keys put there
Settled ==
    /\ \A o \in objects :
          \E k \in Keys : Stored(k) /\ intact[k] /\ KeyPrefix(k) = o.key
    /\ \A k \in Keys : lastK[k].st # "none" => (intact[k] /\ CleanKey(k))

\* C3: a recursive List that meets no failure returns exactly the logical
\* keys stored under the listed prefix, as they were passed to Store
\* (stated for clean keys, and leaving aside the empty strings that the
\* slice's initial length may add: the entries that stand for objects
\* already differ).
C3_ListExact ==
    (ret.op = "List" /\ ret.flag /\ ret.cerr = Nil /\ Settled)
        => Range(ret.val) \ {<<>>}
               = {k \in Keys : Stored(k) /\ Under(k, ret.key)}

\* C4: on clean relative keys KeyPrefix is injective and CutKeyPrefix undoes
\* it, under every configured prefix.
C4_InjectiveReversible ==
    (out.applied /\ CleanKey(out.k1) /\ CleanKey(out.k2))
        => /\ out.k1 # out.k2 => out.p1 # out.p2
           /\ out.cut1 = out.k1

\* C5: every Lock and every Unlock returns nil, also a Lock of a key that
\* another caller has locked and not unlocked.
C5_LockAlwaysSucceeds ==
    /\ ret.op \in {"Lock", "Unlock"} => ret.err = Nil
    /\ \A c \in Callers, k \in LockKeys :
          (Ready(c) /\ k \notin held[c]) => ENABLED Lock(c, k)

\* both callers are between Lock and Unlock of the same key and a Store to
\* that key has just returned
C5_Witness ==
    /\ \A c \in Callers : <<"a">> \in held[c]
    /\ Cardinality(Callers) > 1
    /\ ret.op = "Store" /\ ret.key = <<"a">> /\ ret.err = Nil

\* C6: after Provision every setting the config gave (a non-empty string or
\* a boolean) has the value the config gave it, whatever the environment.
C6_ExplicitWins ==
    phase = "provisioned"
        => \A s \in Settings :
              (/\ explicit[s].given
               /\ s \in StringSettings => explicit[s].val # <<>>)
                  => s3[FieldOf(s)] = explicit[s].val

\* C7: Store, Delete and List return the error the client reported, and nil
\* only when it reported none.
C7_ErrorsPropagate ==
    ret.op \in {"Store", "Delete", "List"} => ret.err = ret.cerr

\* C8: a Load of a key whose object is there, during which the store failed
\* for another reason than a missing object, returns that failure and not
\* fs.ErrNotExist.
C8_FailureIsNotNotFound ==
    (ret.op = "Load" /\ ret.cerr \in FaultErrs /\ Present(KeyPrefix(ret.key)))
        => ret.err = ret.cerr

\* the settings after environment fallback, from the config and the
\* environment alone
Eff(s, envval) ==
    IF explicit[s].given /\ explicit[s].val # <<>> THEN explicit[s].val
    ELSE envval
EffHost   == Eff("host", env.S3_HOST)
EffBucket == Eff("bucket", env.S3_BUCKET)
EffAccess == Eff("access_id", env.S3_ACCESS_ID)
EffSecret == Eff("secret_key", env.S3_SECRET_KEY)
EffIam ==
    \/ explicit["use_iam_provider"].given /\ explicit["use_iam_provider"].val
    \/ env.S3_USE_IAM_PROVIDER \in {"1", "t", "T", "TRUE", "true", "True"}

CredentialErrs == {"access_id is empty and use_iam_provider is false",
                   "secret_key is empty and use_iam_provider is false"}

\* C9: Provision returns an error and installs no client when, after
\* environment fallback, the bucket is empty, or a credential is empty while
\* use_iam_provider is false, or the host holds a scheme; with
\* use_iam_provider true it never fails for an empty credential.
C9_ProvisionFails ==
    phase \in {"provisioned", "provisionError"}
        => /\ (\/ EffBucket = <<>>
               \/ ~EffIam /\ (EffAccess = <<>> \/ EffSecret = <<>>)
               \/ UrlParse(EffHost).scheme # <<>>)
                  => (phase = "provisionError" /\ provErr # Nil
                      /\ ~s3.client.installed)
           /\ EffIam => provErr \notin CredentialErrs

\* Provision succeeded with use_iam_provider true and no credentials at all
C9_Witness ==
    /\ phase = "provisioned" /\ s3.client.installed
    /\ EffIam /\ EffAccess = <<>> /\ EffSecret = <<>>

\* C10: Stat returns a nil error always, and the empty KeyInfo whenever
\* StatObject failed, for a missing key as for any other failure.
C10_StatNeverErrors ==
    ret.op = "Stat"
        => /\ ret.err = Nil
           /\ ret.cerr # Nil => ret.val = EmptyKeyInfo

\* Stat of a key whose object is there, while StatObject fails
C10_Witness ==
    /\ ret.op = "Stat" /\ ret.cerr \in FaultErrs
    /\ Present(KeyPrefix(ret.key))
    /\ ret.err = Nil /\ ret.val = EmptyKeyInfo

\* C11: Load is an existence check then a fetch, with nothing held between
\* them. Every return of Load is not-found, a generic store error, or, with no
\* error, the bytes the key holds when the fetch is served, a moment during
\* the call. A fetch served when the object is gone, a concurrent Delete
\* having removed it since the check found it, returns no bytes and the
\* store's own error, which is neither nil nor fs.ErrNotExist.
C11_LoadRace ==
    [][ret'.op = "Load" =>
           LET pk == KeyPrefix(ret'.key)
               fetched == \E c \in Callers : pc[c] = "fetch" /\ pc'[c] = "idle"
           IN  /\ \/ ret'.err = ErrNotExist
                  \/ ret'.err \notin {Nil, ErrNotExist}
                  \/ ret'.err = Nil /\ Present(pk) /\ ret'.val = Content(pk)
               /\ (fetched /\ ~Present(pk))
                      => (ret'.err \notin {Nil, ErrNotExist} /\ ret'.val = <<>>)]_vars

\* a Load has returned the store's NoSuchKey: its check found the key, whose
\* last call then was not a Delete, and another caller's Delete succeeded
\* before the fetch
C11_Witness ==
    /\ ret.op = "Load" /\ ret.err = NoSuchKey /\ ret.cerr = NoSuchKey
    /\ ~ret.flag /\ Deleted(ret.key)
    /\ ~Present(KeyPrefix(ret.key))

=============================================================================
